---- MODULE Spec2Model ----
(***************************************************************************)
(* Model of the Sepolia crowdfunding test harness:                         *)
(*   cast_interactor.py  CastInteractor (the command executor)             *)
(*   uniswap_helper.py   UniswapV2Helper                                   *)
(*   sepolia_test.py     SepoliaTestSuite and its three scenarios          *)
(*                                                                         *)
(* A text returned by the chain client is a sequence of one-character      *)
(* strings; a command is a sequence of argument tokens (strings).          *)
(***************************************************************************)
EXTENDS Integers, Sequences, FiniteSets, TLC

VARIABLES
    op,            \* the executor operation invoked last ("none" before any)
    key,           \* private_key of the executor instance it was invoked on
    command,       \* the argument list handed to the subprocess layer
    full_command,  \* the command line assembled for the subprocess
    outcome,       \* what the subprocess did: [kind, stdout]
    ret,           \* what the operation returned (or that it raised)
    log,           \* the log lines the operation emitted, each a token sequence
    scenario,      \* the scenario being run: 1, 2, 3 (0 before one is started)
    pc,            \* the next subprocess invocation of the running scenario
    mem,           \* the scenario's local values (campaign id, addresses, ...)
    elapsed,       \* time.time() - start_time inside wait_for_campaign_end (0 outside)
    iterations,    \* the loop iterations a counted wait has begun (SpecWait)
    slept,         \* seconds slept within the last step, after its invocation
    sent,          \* the signed transactions submitted so far, in order
    invoked,       \* how often each operation ran each command: 1, or 2 for more
    steps_ok,      \* the building blocks that have returned success
    state_seen,    \* the campaign state the poll parsed last (-1: none yet)
    wait_result,   \* what wait_for_campaign_end returned
    swap_result,   \* what test_token_swap returned
    scenario_result, \* what the scenario returned
    raised,        \* the error caught at the scenario boundary ("" if none)
    env,           \* os.getenv of each configuration variable: None or a text
    suite,         \* SepoliaTestSuite(): not built yet, built, or raised
    results,       \* what run_all_tests returned (<<>> before it has)
    exit_status    \* the status main left the process with (-1 while running)

execVars == <<op, key, command, full_command, outcome, ret, log>>

scenVars == <<scenario, pc, mem, elapsed, iterations, slept, sent, invoked, steps_ok, state_seen,
              wait_result, swap_result, scenario_result, raised>>

mainVars == <<env, suite, results, exit_status>>

vars == <<execVars, scenVars, mainVars>>

(***************************************************************************)
(* Bounds of the model.                                                    *)
(***************************************************************************)
MaxTextLen == 3
MaxCmdLen == 3

(***************************************************************************)
(* Texts.                                                                  *)
(***************************************************************************)
\* The characters output texts are enumerated over: a blank, two decimal
\* digits, a digit of base 16 only, the prefix letter, a sign and a non-digit.
Chars == {" ", "0", "1", "a", "x", "-", "g"}

Texts(n) == UNION {[1..k -> Chars] : k \in 0..n}

Range(s) == {s[i] : i \in 1..Len(s)}

Min(a, b) == IF a < b THEN a ELSE b

IsSpace(c) == c = " "

RECURSIVE LStrip(_)
LStrip(s) == IF s # <<>> /\ IsSpace(Head(s)) THEN LStrip(Tail(s)) ELSE s

RECURSIVE RStrip(_)
RStrip(s) ==
    IF s # <<>> /\ IsSpace(s[Len(s)])
    THEN RStrip(SubSeq(s, 1, Len(s) - 1))
    ELSE s

\* str.strip()
Strip(s) == RStrip(LStrip(s))

\* str.startswith("0x")
StartsWith0x(s) == Len(s) >= 2 /\ s[1] = "0" /\ s[2] = "x"

\* int(text, base): surrounding whitespace is skipped, a sign may lead, base
\* 16 accepts an optional 0x prefix after it, and what remains must be one or
\* more digits of the base.
DecDigits == <<"0", "1", "2", "3", "4", "5", "6", "7", "8", "9">>

IsDigit(c, base) == c \in Range(DecDigits) \/ (base = 16 /\ c \in {"a", "A"})

DigitVal(c) ==
    IF c \in {"a", "A"} THEN 10 ELSE CHOOSE d \in 0..9 : DecDigits[d + 1] = c

IsSign(c) == c \in {"+", "-"}

Unsigned(s) == IF s # <<>> /\ IsSign(Head(s)) THEN Tail(s) ELSE s

IntBody(s, base) ==
    LET u == Unsigned(s)
    IN  IF base = 16 /\ StartsWith0x(u) THEN SubSeq(u, 3, Len(u)) ELSE u

IntValid(s, base) ==
    LET b == IntBody(Strip(s), base)
    IN  b # <<>> /\ \A i \in 1..Len(b) : IsDigit(b[i], base)

RECURSIVE DigitsVal(_, _)
DigitsVal(b, base) ==
    IF b = <<>> THEN 0
    ELSE DigitsVal(SubSeq(b, 1, Len(b) - 1), base) * base + DigitVal(b[Len(b)])

IntValue(s, base) ==
    LET t == Strip(s)
        magnitude == DigitsVal(IntBody(t, base), base)
    IN  IF t # <<>> /\ Head(t) = "-" THEN 0 - magnitude ELSE magnitude

(***************************************************************************)
(* Return values: None, a text, an int, a bool, a dict, or a raised error. *)
(***************************************************************************)
None == [kind |-> "none"]
Text(t) == [kind |-> "text", text |-> t]
IntRet(n) == [kind |-> "int", val |-> n]
BoolRet(b) == [kind |-> "bool", val |-> b]
DictRet(t) == [kind |-> "dict", raw |-> t]
Raise(e) == [kind |-> "raise", exc |-> e]

\* Python truthiness of an Optional[str]: neither None nor "".
Truthy(r) == r.kind = "text" /\ r.text # <<>>

(***************************************************************************)
(* The subprocess.                                                         *)
(***************************************************************************)
OutcomeKinds == {"exit0", "nonzero", "timeout", "error"}

Exit0(t) == [kind |-> "exit0", stdout |-> t]
Failure(k) == [kind |-> k, stdout |-> <<>>]
Failures == {Failure(k) : k \in OutcomeKinds \ {"exit0"}}

Outcomes(texts) == {Exit0(t) : t \in texts} \cup Failures

CreatorKey == "<creator-private-key>"
DonorKey == "<donor-private-key>"
Keys == {CreatorKey, DonorKey}
RpcUrl == "<rpc-url>"

(***************************************************************************)
(* CastInteractor.run_cast_command                                         *)
(***************************************************************************)
\* Mutant: the key is attached to every "send" or "call" request.
FullCommandKeyOnCall(cmd, rpc_url, private_key) ==
    LET base == <<"cast">> \o cmd \o <<"--rpc-url", rpc_url>>
    IN  IF \E c \in {"send", "call"} : c \in Range(cmd)
        THEN base \o <<"--private-key", private_key>>
        ELSE base

FullCommand(cmd, rpc_url, private_key) ==
    LET base == <<"cast">> \o cmd \o <<"--rpc-url", rpc_url>>
    IN  IF \E c \in {"send", "call"} : c \in Range(cmd)
        THEN IF "send" \in Range(cmd)
             THEN base \o <<"--private-key", private_key>>
             ELSE base
        ELSE base

\* Mutant: standard output is returned as captured, not trimmed.
RunCastResultUntrimmed(o) ==
    IF o.kind = "exit0" THEN Text(o.stdout) ELSE None

RunCastResult(o) ==
    IF o.kind = "exit0" THEN Text(Strip(o.stdout)) ELSE None

\* Mutant: one more token of the command is logged.
RunCastLogFourTokens(full, o) ==
    << <<"Executing:">> \o SubSeq(full, 1, Min(4, Len(full))) \o <<"...">> >>
    \o CASE o.kind = "exit0"   -> << <<"Cast result:", "<stdout>">> >>
         [] o.kind = "nonzero" -> << <<"Cast command failed:", "<stderr>">> >>
         [] o.kind = "timeout" -> << <<"Cast command timed out">> >>
         [] o.kind = "error"   ->
                << <<"Error executing cast command:", "[Errno]", full[1]>> >>

\* The log lines of one run_cast_command.  The client's own output is the
\* token <stdout> / <stderr>; an OSError names the executable, full_command[0].
RunCastLog(full, o) ==
    << <<"Executing:">> \o SubSeq(full, 1, Min(3, Len(full))) \o <<"...">> >>
    \o CASE o.kind = "exit0"   -> << <<"Cast result:", "<stdout>">> >>
         [] o.kind = "nonzero" -> << <<"Cast command failed:", "<stderr>">> >>
         [] o.kind = "timeout" -> << <<"Cast command timed out">> >>
         [] o.kind = "error"   ->
                << <<"Error executing cast command:", "[Errno]", full[1]>> >>

(***************************************************************************)
(* CastInteractor: the operations built on run_cast_command.               *)
(***************************************************************************)
AddrDigits == 40

BalanceCommand(token_address, account) ==
    <<"call", token_address, "balanceOf(address)(uint256)", account>>

\* Mutant: the result is parsed without the guard for an absent result.
GetBalanceResultUnguarded(o) ==
    LET result == RunCastResult(o)
    IN  IF result.kind = "text" /\ IntValid(result.text, 16)
        THEN IntRet(IntValue(result.text, 16))
        ELSE Raise(IF result.kind = "text" THEN "ValueError" ELSE "TypeError")

GetBalanceResult(o) ==
    LET result == RunCastResult(o)
    IN  IF Truthy(result)
        THEN IF IntValid(result.text, 16)
             THEN IntRet(IntValue(result.text, 16))
             ELSE Raise("ValueError")
        ELSE IntRet(0)

ApproveCommand(token_address, spender, amount) ==
    <<"send", token_address, "approve(address,uint256)", spender, amount>>

ApproveResult(o) == BoolRet(RunCastResult(o) # None)

DetailsCommand(factory_address, campaign_id) ==
    <<"call", factory_address, "getCampaign(uint256)", campaign_id>>

DetailsResult(o) ==
    LET result == RunCastResult(o)
    IN  IF ~Truthy(result) THEN None ELSE DictRet(result.text)

\* str.zfill(width): zeros are put after a leading sign, if there is one
Zfill(s, width) ==
    LET fill == [i \in 1..(width - Len(s)) |-> "0"]
    IN  IF Len(s) >= width THEN s
        ELSE IF s # <<>> /\ IsSign(Head(s)) THEN <<Head(s)>> \o fill \o Tail(s)
        ELSE fill \o s

\* Mutant: of more than 40 digits the first 40 are kept.
CanonicalFirst40(t) ==
    LET hex_part == SubSeq(t, 3, Len(t))
    IN  <<"0", "x">> \o
        (IF Len(hex_part) > AddrDigits
         THEN SubSeq(hex_part, 1, AddrDigits)
         ELSE IF Len(hex_part) < AddrDigits
              THEN Zfill(hex_part, AddrDigits)
              ELSE hex_part)

\* "0x" + the 40-digit form of the digits after the prefix
Canonical(t) ==
    LET hex_part == SubSeq(t, 3, Len(t))
    IN  <<"0", "x">> \o
        (IF Len(hex_part) > AddrDigits
         THEN SubSeq(hex_part, Len(hex_part) - AddrDigits + 1, Len(hex_part))
         ELSE IF Len(hex_part) < AddrDigits
              THEN Zfill(hex_part, AddrDigits)
              ELSE hex_part)

CampaignAddressCommand(factory_address, campaign_id) ==
    <<"call", factory_address, "getCampaignAddress(uint256)", campaign_id>>

CampaignAddressResult(o) ==
    LET result == RunCastResult(o)
    IN  IF Truthy(result) /\ StartsWith0x(result.text)
        THEN Text(Canonical(result.text))
        ELSE result

\* get_account_address runs its own subprocess, without --rpc-url.
AccountAddressCommand(private_key) == <<"cast", "wallet", "address", private_key>>

AccountAddressResult(o) ==
    IF o.kind = "exit0" THEN Text(Strip(o.stdout)) ELSE None

AccountAddressLog(full, o) ==
    << <<"Executing:", "cast", "wallet", "address", "...">> >>
    \o CASE o.kind = "exit0"   -> << <<"Account address:", "<stdout>">> >>
         [] o.kind = "nonzero" -> << <<"Cast wallet command failed:", "<stderr>">> >>
         [] o.kind = "timeout" -> << <<"Cast wallet command timed out">> >>
         [] o.kind = "error"   ->
                << <<"Error executing cast wallet command:", "[Errno]", full[1]>> >>

(***************************************************************************)
(* SpecExec: the executor's operations (and, further down, the parsing and *)
(* pricing functions built on them) applied to every command, key,         *)
(* subprocess outcome and output text within the bounds.  None of them     *)
(* keeps state between calls, so each behaviour applies one operation.     *)
(***************************************************************************)
Tokens == {"send", "call", "sendTokens()"}

Commands == UNION {[1..k -> Tokens] : k \in 0..MaxCmdLen}

AllOutcomes == Outcomes(Texts(MaxTextLen))

\* No executor operation has run yet.
ExecIdle ==
    /\ op = "none"
    /\ key = CreatorKey
    /\ command = <<>>
    /\ full_command = <<>>
    /\ outcome = Failure("error")
    /\ ret = None
    /\ log = <<>>

NoMem ==
    [campaign_id |-> 0, campaign_address |-> <<>>, amount |-> 0,
     campaign_token_address |-> <<>>, donor_address |-> <<>>,
     token_balance |-> 0, swap_amount |-> 0, pair_address |-> <<>>,
     reserve0 |-> 0, reserve1 |-> 0, expected_usdc_out |-> 0,
     min_usdc_out |-> 0]

\* No scenario has been started.
ScenarioIdle ==
    /\ scenario = 0
    /\ pc = "start"
    /\ mem = NoMem
    /\ elapsed = 0
    /\ iterations = 0
    /\ slept = 0
    /\ sent = <<>>
    /\ invoked = <<>>
    /\ steps_ok = {}
    /\ state_seen = -1
    /\ wait_result = "pending"
    /\ swap_result = "pending"
    /\ scenario_result = "pending"
    /\ raised = ""

\* The configuration variables, in the order _load_config tests them.
EnvNames ==
    <<"RPC_URL", "CREATOR_PRIVATE_KEY", "DONOR_PRIVATE_KEY",
      "CROWDFUNDING_FACTORY_ADDRESS", "USDC_TOKEN_ADDRESS">>

\* What os.getenv gives: None (unset), the empty text, or a text.
EnvValues == {None, Text(<<>>), Text(<<"x">>)}

Environments == [Range(EnvNames) -> EnvValues]

Unbuilt == [kind |-> "unbuilt"]

\* Mutant: only the unset variables are listed, not the empty ones.
MissingUnsetOnly(e) ==
    SelectSeq(EnvNames, LAMBDA var : e[var] = None)

\* [var for var, val in [...] if not val]
Missing(e) ==
    SelectSeq(EnvNames, LAMBDA var : ~Truthy(e[var]))

\* _load_config, called by __init__: the TestConfig, or the ValueError with
\* its list of names.
LoadConfig(e) ==
    IF ~(\A i \in 1..Len(EnvNames) : Truthy(e[EnvNames[i]]))
    THEN [kind |-> "raise", exc |-> "ValueError", missing |-> Missing(e)]
    ELSE [kind |-> "suite",
          config |-> [rpc_url |-> e["RPC_URL"].text,
                      creator_private_key |-> e["CREATOR_PRIVATE_KEY"].text,
                      donor_private_key |-> e["DONOR_PRIVATE_KEY"].text,
                      factory |-> e["CROWDFUNDING_FACTORY_ADDRESS"].text,
                      usdc |-> e["USDC_TOKEN_ADDRESS"].text]]

\* A suite has been constructed from a complete environment; main is not
\* running.
SuiteBuilt ==
    /\ env = [var \in Range(EnvNames) |-> Text(<<"x">>)]
    /\ suite = LoadConfig(env)
    /\ results = <<>>
    /\ exit_status = -1

InitExec == ExecIdle /\ ScenarioIdle /\ SuiteBuilt

\* One operation through run_cast_command: cmd is its argument list, o the
\* subprocess outcome, r the operation's return value.
Invoke(name, k, cmd, o, r) ==
    /\ op' = name
    /\ key' = k
    /\ command' = cmd
    /\ full_command' = FullCommand(cmd, RpcUrl, k)
    /\ outcome' = o
    /\ ret' = r
    /\ log' = RunCastLog(FullCommand(cmd, RpcUrl, k), o)

\* get_account_address on the instance holding key k.
InvokeAccountAddress(k, o) ==
    /\ op' = "get_account_address"
    /\ key' = k
    /\ command' = <<"wallet", "address", k>>
    /\ full_command' = AccountAddressCommand(k)
    /\ outcome' = o
    /\ ret' = AccountAddressResult(o)
    /\ log' = AccountAddressLog(AccountAddressCommand(k), o)

ExecRunCastCommand ==
    /\ op = "none"
    /\ \E k \in Keys, cmd \in Commands, o \in AllOutcomes :
        Invoke("run_cast_command", k, cmd, o, RunCastResult(o))
    /\ UNCHANGED <<scenVars, mainVars>>

ExecGetBalance ==
    /\ op = "none"
    /\ \E k \in Keys, o \in AllOutcomes :
        Invoke("get_balance", k, BalanceCommand("0xA", "0xB"), o, GetBalanceResult(o))
    /\ UNCHANGED <<scenVars, mainVars>>

ExecApproveToken ==
    /\ op = "none"
    /\ \E k \in Keys, o \in AllOutcomes :
        Invoke("approve_token", k, ApproveCommand("0xA", "0xB", "1000"), o,
               ApproveResult(o))
    /\ UNCHANGED <<scenVars, mainVars>>

ExecGetCampaignDetails ==
    /\ op = "none"
    /\ \E k \in Keys, o \in AllOutcomes :
        Invoke("get_campaign_details", k, DetailsCommand("0xA", "6"), o,
               DetailsResult(o))
    /\ UNCHANGED <<scenVars, mainVars>>

\* Address texts of every length around 40 digits: "0x", a run of digits that
\* is empty or two short of 40, and a short text.
LongRun == [i \in 1..(AddrDigits - 2) |-> IF i % 2 = 0 THEN "a" ELSE "1"]

AddressTexts ==
    {<<"0", "x">> \o run \o t : run \in {<<>>, LongRun}, t \in Texts(MaxTextLen)}

ExecGetCampaignAddress ==
    /\ op = "none"
    /\ \E k \in Keys, o \in AllOutcomes \cup Outcomes(AddressTexts) :
        Invoke("get_campaign_address", k, CampaignAddressCommand("0xA", "6"), o,
               CampaignAddressResult(o))
    /\ UNCHANGED <<scenVars, mainVars>>

ExecGetAccountAddress ==
    /\ op = "none"
    /\ \E k \in Keys, o \in AllOutcomes : InvokeAccountAddress(k, o)
    /\ UNCHANGED <<scenVars, mainVars>>


(***************************************************************************)
(* SepoliaTestSuite: configuration and the texts the chain client returns. *)
(***************************************************************************)
FundingGoal == 1000000000
MaxWait == 150
SubprocessTimeout == 60
ConfirmSleep == 10
ApprovalSleep == 5
UpdateSleep == 5
ActiveSleep == 10
RetrySleep == 10
IndexSleep == 10

\* The executor instances, named by the key each holds.
creator_cast == CreatorKey
donor_cast == DonorKey

Factory == "<factory>"
Usdc == "<usdc>"

\* str(amount) for the amounts the scenarios use
AmountToken(n) ==
    CASE n = FundingGoal -> "1000000000"
      [] n = FundingGoal \div 2 -> "500000000"

\* Seconds a subprocess can take: a timeout is raised at the limit.
Durations(o) == IF o.kind = "timeout" THEN {SubprocessTimeout} ELSE {0, 5}

RECURSIVE Join(_)
Join(fields) ==
    IF fields = <<>> THEN <<>>
    ELSE IF Len(fields) = 1 THEN fields[1]
    ELSE fields[1] \o <<",">> \o Join(Tail(fields))

\* the client's rendering of a tuple
Tuple(fields) == <<"(">> \o Join(fields) \o <<")">>

Addr40 == [i \in 1..AddrDigits |-> IF i % 2 = 0 THEN "a" ELSE "1"]

TxOutputs == {<<>>, <<"0", "x", "a">>}

CountOutputs == {<<>>, <<"0">>, <<"7">>, <<"g">>}

AddressOutputs ==
    {<<>>, <<"g">>, <<"0", "x", "a">>,
     <<"0", "x">> \o [i \in 1..24 |-> "0"] \o Addr40}

StateOutputs == {<<>>, <<"0">>, <<"1">>, <<"2">>, <<"3">>, <<"g">>}

DetailsOutputs ==
    LET f == <<"1">>
        head == <<f, f, f, f, f, f, f, f>>
    IN  {<<>>,
         Tuple(head),
         Tuple(head \o << <<"g">>, f, f >>),
         Tuple(head \o << <<" ", "0", "x", "a">>, f, f >>)}

AccountOutputs == {<<>>, <<"0", "x">> \o Addr40}

BalanceOutputs ==
    {<<>>, <<"0">>, <<"1">>, <<"a">>, <<"g">>, <<"0", "x", "1", "0", "0">>}

(***************************************************************************)
(* The running scenario: one step per subprocess invocation, with the code *)
(* that follows it up to the next invocation.                              *)
(***************************************************************************)
\* The transactions submitted once cmd has run.  A transaction submitted
\* again right after itself is kept as one entry with n = 2 (twice or more).
Submitted(cmd) ==
    LET tx == <<cmd[2], cmd[3]>>
    IN  IF "send" \notin Range(cmd) THEN sent
        ELSE IF sent # <<>> /\ sent[Len(sent)].tx = tx
        THEN [sent EXCEPT ![Len(sent)].n = 2]
        ELSE Append(sent, [tx |-> tx, n |-> 1])

\* The invocation counts once operation name has run cmd.
Issued(name, cmd) ==
    LET call == <<name, cmd>>
    IN  IF call \in DOMAIN invoked
        THEN [invoked EXCEPT ![call] = 2]
        ELSE [c \in DOMAIN invoked \cup {call} |->
                IF c = call THEN 1 ELSE invoked[c]]

\* An executor operation run by the suite.
Call(name, k, cmd, o, r) ==
    /\ Invoke(name, k, cmd, o, r)
    /\ sent' = Submitted(cmd)
    /\ invoked' = Issued(name, cmd)

\* The scenario's variables after a step: u gives those that change; no
\* sleep unless u says so.
Upd(u) ==
    LET get(f, old) == IF f \in DOMAIN u THEN u[f] ELSE old
    IN  /\ pc' = get("pc", pc)
        /\ mem' = get("mem", mem)
        /\ elapsed' = get("elapsed", elapsed)
        /\ iterations' = get("iterations", iterations)
        /\ slept' = get("slept", 0)
        /\ steps_ok' = steps_ok \cup get("ok", {})
        /\ state_seen' = get("state_seen", state_seen)
        /\ wait_result' = get("wait_result", wait_result)
        /\ swap_result' = get("swap_result", swap_result)
        /\ scenario_result' = get("scenario_result", scenario_result)
        /\ raised' = get("raised", raised)
        /\ UNCHANGED <<scenario, mainVars>>

\* the scenario returns b
Return(b) == [pc |-> "done", scenario_result |-> b]

\* Mutant: the error leaves the scenario.
ExceptPropagates(e) == [pc |-> "done", scenario_result |-> "raised", raised |-> e]

\* an error propagates to the scenario's except clause, which returns False
Except(e) == [pc |-> "done", scenario_result |-> "false", raised |-> e]

Goto(p) == [pc |-> p]

Init == ExecIdle /\ ScenarioIdle /\ SuiteBuilt

\* test_scenario_1/2/3 is entered.
Begin ==
    /\ pc = "start"
    /\ \E s \in 1..3 : scenario' = s
    /\ pc' = "create_campaign"
    /\ UNCHANGED <<execVars, mem, elapsed, iterations, slept, sent, invoked, steps_ok, state_seen,
                   wait_result, swap_result, scenario_result, raised, mainVars>>

CampaignName(s) ==
    CASE s = 1 -> "Test Campaign 1"
      [] s = 2 -> "Test Campaign 2"
      [] s = 3 -> "Test Campaign 3"

TokenName(s) ==
    CASE s = 1 -> "Test Campaign 1 Token"
      [] s = 2 -> "Test Campaign 2 Token"
      [] s = 3 -> "Test Campaign 3 Token"

LiquidityPercentage(s) == IF s = 2 THEN "50" ELSE "0"

CreateCommand(s) ==
    <<"send", Factory,
      "createCampaign(string,string,uint256,uint256,uint256,uint256,string,string)",
      CampaignName(s), "ipfs://test-metadata", AmountToken(FundingGoal), "120",
      "25", LiquidityPercentage(s), TokenName(s), "TEST">>

\* create_campaign: the creation transaction
CreateCampaign ==
    /\ pc = "create_campaign"
    /\ \E o \in Outcomes(TxOutputs) :
        LET result == RunCastResult(o)
        IN  /\ Call("run_cast_command", creator_cast, CreateCommand(scenario),
                    o, result)
            /\ IF ~Truthy(result)
               THEN Upd(Return("false"))
               ELSE Upd(Goto("campaign_count") @@ [slept |-> ConfirmSleep])

CountCommand == <<"call", Factory, "getCampaignCount()(uint256)">>

\* Mutant: the count itself is taken for the ID.
CampaignIdIsCount(campaign_count_result) == IntValue(campaign_count_result, 10)

\* int(campaign_count_result, 10) - 1, the latest campaign ID
CampaignIdOf(campaign_count_result) == IntValue(campaign_count_result, 10) - 1

\* create_campaign: the count read and the ID
CampaignCount ==
    /\ pc = "campaign_count"
    /\ \E o \in Outcomes(CountOutputs) :
        LET campaign_count_result == RunCastResult(o)
        IN  /\ Call("run_cast_command", creator_cast, CountCommand, o,
                    campaign_count_result)
            /\ IF ~Truthy(campaign_count_result)
               THEN Upd(Return("false"))
               ELSE IF ~IntValid(campaign_count_result.text, 10)
               THEN Upd(Except("ValueError"))
               ELSE Upd(Goto("campaign_address") @@
                        [mem |-> [mem EXCEPT !.campaign_id =
                            CampaignIdOf(campaign_count_result.text)]])

\* The partial amount of scenario 3, the full goal otherwise.
ContributionAmount(s) == IF s = 3 THEN FundingGoal \div 2 ELSE FundingGoal

\* create_campaign: the address read; the scenario goes on to contribute
CampaignAddress ==
    /\ pc = "campaign_address"
    /\ \E o \in Outcomes(AddressOutputs) :
        LET campaign_address == CampaignAddressResult(o)
        IN  /\ Call("get_campaign_address", creator_cast,
                    CampaignAddressCommand(Factory, "<campaign_id>"), o,
                    campaign_address)
            /\ IF ~Truthy(campaign_address)
               THEN Upd(Return("false"))
               ELSE Upd(Goto("approve_usdc") @@
                        [ok |-> {"create_campaign"},
                         mem |-> [mem EXCEPT
                            !.campaign_address = campaign_address.text,
                            !.amount = ContributionAmount(scenario)]])

\* contribute_to_campaign: the stablecoin approval
ApproveUsdc ==
    /\ pc = "approve_usdc"
    /\ \E o \in Outcomes(TxOutputs) :
        LET approved == ApproveResult(o)
        IN  /\ Call("approve_token", donor_cast,
                    ApproveCommand(Usdc, "<campaign_address>",
                                   AmountToken(mem.amount)), o, approved)
            /\ IF ~approved.val
               THEN Upd(Return("false"))
               ELSE Upd(Goto("contribute") @@ [slept |-> ApprovalSleep])

\* Mutant: the funding goal is contributed, whatever the amount asked for.
ContributeCommandGoal(amount) ==
    <<"send", "<campaign_address>", "contribute(uint256)", AmountToken(FundingGoal)>>

ContributeCommand(amount) ==
    <<"send", "<campaign_address>", "contribute(uint256)", AmountToken(amount)>>

\* contribute_to_campaign: the contribution; the scenario goes on to wait
Contribute ==
    /\ pc = "contribute"
    /\ \E o \in Outcomes(TxOutputs) :
        LET result == RunCastResult(o)
        IN  /\ Call("run_cast_command", donor_cast,
                    ContributeCommand(mem.amount), o, result)
            /\ IF ~Truthy(result)
               THEN Upd(Return("false"))
               ELSE Upd(Goto("update_state") @@
                        [ok |-> {"contribute_to_campaign"}, elapsed |-> 0])

UpdateCommand == <<"send", "<campaign_address>", "updateCampaignState()">>

\* One iteration of the loop of wait_for_campaign_end, from the loop
\* condition that lets it begin to the state-refresh transaction and its
\* sleep; tally is what an observer of the loop notes down as it begins.
BeginIteration(tally) ==
    /\ pc = "update_state"
    /\ \E o \in Outcomes(TxOutputs) : \E d \in Durations(o) :
        LET update_result == RunCastResult(o)
            nap == IF Truthy(update_result) THEN UpdateSleep ELSE 0
        IN  /\ Call("run_cast_command", creator_cast, UpdateCommand, o,
                    update_result)
            /\ Upd(tally @@ Goto("read_state") @@
                   [slept |-> nap, elapsed |-> elapsed + d + nap])

\* wait_for_campaign_end: the state-refresh transaction of one iteration
UpdateCampaignState == BeginIteration(<<>>)

StateCommand == <<"call", "<campaign_address>", "getCampaignState()(uint8)">>

\* Mutant: a Failed campaign is polled again.
PollVerdictIgnoresFailed(state) ==
    CASE state = 1 -> "true"
      [] OTHER -> "sleep"

\* Mutant: a Failed campaign is taken for a succeeded one.
PollVerdictFailedSucceeds(state) ==
    CASE state = 0 -> "sleep"
      [] state = 1 -> "true"
      [] state = 2 -> "true"
      [] OTHER -> "sleep"

\* What the poll does with a parsed state: return True, return False, or
\* sleep and go round again.
PollVerdict(state) ==
    CASE state = 0 -> "sleep"
      [] state = 1 -> "true"
      [] state = 2 -> "false"
      [] OTHER -> "sleep"

\* Mutant: an active campaign is polled again after half the sleep.
PollSleepHalved(state) == IF state = 0 THEN ActiveSleep \div 2 ELSE RetrySleep

PollSleep(state) == IF state = 0 THEN ActiveSleep ELSE RetrySleep

\* What each scenario does once wait_for_campaign_end has returned True.
AfterWait(s) ==
    CASE s = 1 -> "claim_tokens"
      [] s = 2 -> "create_liquidity_pool"
      [] s = 3 -> "refund_contribution"

\* The loop condition, evaluated after a sleep; on timeout the wait returns
\* False and so does the scenario.
LoopOrTimeout(t) ==
    IF t < MaxWait
    THEN Goto("update_state")
    ELSE Return("false") @@ [wait_result |-> "false"]

\* wait_for_campaign_end: the state read of one iteration
ReadCampaignState ==
    /\ pc = "read_state"
    /\ \E o \in Outcomes(StateOutputs) : \E d \in Durations(o) :
        LET state_result == RunCastResult(o)
            now == elapsed + d
        IN  /\ Call("run_cast_command", creator_cast, StateCommand, o,
                    state_result)
            /\ IF ~Truthy(state_result)
               THEN Upd(LoopOrTimeout(now + RetrySleep) @@
                        [slept |-> RetrySleep, elapsed |-> now + RetrySleep])
               ELSE IF ~IntValid(state_result.text, 16)
               THEN Upd(Except("ValueError") @@ [elapsed |-> now])
               ELSE LET state == IntValue(state_result.text, 16)
                        seen == [state_seen |-> state]
                    IN  CASE PollVerdict(state) = "true" ->
                               Upd(Goto(AfterWait(scenario)) @@ seen @@
                                   [wait_result |-> "true", elapsed |-> 0,
                                    ok |-> {"wait_for_campaign_end"}])
                          [] PollVerdict(state) = "false" ->
                               Upd(Return("false") @@ seen @@
                                   [wait_result |-> "false", elapsed |-> now])
                          [] OTHER ->
                               Upd(LoopOrTimeout(now + PollSleep(state)) @@ seen @@
                                   [slept |-> PollSleep(state),
                                    elapsed |-> now + PollSleep(state)])

\* What each scenario does once claim_tokens has returned True.
AfterClaim(s) == IF s = 1 THEN "withdraw_funds" ELSE "get_account_address"

\* Mutant: claim_tokens reports success whatever the transaction gave.
ClaimSucceededAlways(result) == TRUE

\* claim_tokens returns True for a non-empty transaction result, else False.
ClaimSucceeded(result) == Truthy(result)

\* claim_tokens (donor)
ClaimTokens ==
    /\ pc = "claim_tokens"
    /\ \E o \in Outcomes(TxOutputs) :
        LET result == RunCastResult(o)
        IN  /\ Call("run_cast_command", donor_cast,
                    <<"send", "<campaign_address>", "claimTokens()">>, o, result)
            /\ IF ~ClaimSucceeded(result)
               THEN Upd(Return("false"))
               ELSE Upd(Goto(AfterClaim(scenario)) @@
                        [ok |-> {"claim_tokens"},
                         slept |-> IF scenario = 2 THEN IndexSleep ELSE 0])

\* withdraw_funds (creator), the last step of scenario 1
WithdrawFunds ==
    /\ pc = "withdraw_funds"
    /\ \E o \in Outcomes(TxOutputs) :
        LET result == RunCastResult(o)
        IN  /\ Call("run_cast_command", creator_cast,
                    <<"send", "<campaign_address>", "withdrawFunds()">>, o, result)
            /\ IF ~Truthy(result)
               THEN Upd(Return("false"))
               ELSE Upd(Return("true") @@ [ok |-> {"withdraw_funds"}])

\* refund_contribution (donor), the last step of scenario 3
RefundContribution ==
    /\ pc = "refund_contribution"
    /\ \E o \in Outcomes(TxOutputs) :
        LET result == RunCastResult(o)
        IN  /\ Call("run_cast_command", donor_cast,
                    <<"send", "<campaign_address>", "refund()">>, o, result)
            /\ IF ~Truthy(result)
               THEN Upd(Return("false"))
               ELSE Upd(Return("true") @@ [ok |-> {"refund_contribution"}])

\* create_liquidity_pool (creator)
CreateLiquidityPool ==
    /\ pc = "create_liquidity_pool"
    /\ \E o \in Outcomes(TxOutputs) :
        LET result == RunCastResult(o)
        IN  /\ Call("run_cast_command", creator_cast,
                    <<"send", "<campaign_address>", "createLiquidityPool()">>,
                    o, result)
            /\ IF ~Truthy(result)
               THEN Upd(Return("false"))
               ELSE Upd(Goto("token_address") @@ [ok |-> {"create_liquidity_pool"}])

\* str.strip(chars)
RECURSIVE StripSet(_, _)
StripSet(s, chars) ==
    IF s # <<>> /\ Head(s) \in chars THEN StripSet(Tail(s), chars)
    ELSE IF s # <<>> /\ s[Len(s)] \in chars
         THEN StripSet(SubSeq(s, 1, Len(s) - 1), chars)
         ELSE s

\* str.split(",")
RECURSIVE Split(_)
Split(s) ==
    IF \E i \in 1..Len(s) : s[i] = ","
    THEN LET i == CHOOSE i \in 1..Len(s) :
                      s[i] = "," /\ \A j \in 1..(i - 1) : s[j] # ","
         IN  <<SubSeq(s, 1, i - 1)>> \o Split(SubSeq(s, i + 1, Len(s)))
    ELSE <<s>>

DetailsCommandOf(campaign_id) ==
    <<"call", Factory, "getCampaign(uint256)", campaign_id>>

\* get_campaign_token_address: the 9th field of the campaign record
TokenAddressResult(o) ==
    LET result == RunCastResult(o)
    IN  IF ~Truthy(result) THEN None
        ELSE LET parts == Split(StripSet(result.text, {"(", ")"}))
             IN  IF Len(parts) >= 9
                 THEN LET token_addr == Strip(parts[9])
                      IN  IF StartsWith0x(token_addr)
                          THEN Text(Canonical(token_addr))
                          ELSE None
                 ELSE None

\* The client's rendering of a campaign record whose 9th field is token_addr.
CampaignRecord(token_addr) ==
    LET f == <<"1">>
    IN  Tuple(<<f, f, f, f, f, f, f, f, token_addr, f, f>>)

\* get_campaign_token_address applied to every record text within the bounds
ExecGetCampaignTokenAddress ==
    /\ op = "none"
    /\ \E o \in AllOutcomes \cup
                Outcomes({CampaignRecord(t) : t \in Texts(MaxTextLen) \cup AddressTexts}) :
        Invoke("get_campaign_token_address", CreatorKey, DetailsCommandOf("6"), o,
               TokenAddressResult(o))
    /\ UNCHANGED <<scenVars, mainVars>>

\* get_campaign_token_address (creator); scenario 2 goes on to claim
GetCampaignTokenAddress ==
    /\ pc = "token_address"
    /\ \E o \in Outcomes(DetailsOutputs) :
        LET campaign_token_address == TokenAddressResult(o)
        IN  /\ Call("get_campaign_token_address", creator_cast,
                    DetailsCommandOf("<campaign_id>"), o, campaign_token_address)
            /\ IF ~Truthy(campaign_token_address)
               THEN Upd(Return("false"))
               ELSE Upd(Goto("claim_tokens") @@
                        [ok |-> {"get_campaign_token_address"},
                         mem |-> [mem EXCEPT !.campaign_token_address =
                                      campaign_token_address.text]])

\* scenario 2: the donor's own address
GetAccountAddress ==
    /\ pc = "get_account_address"
    /\ \E o \in Outcomes(AccountOutputs) :
        LET donor_address == AccountAddressResult(o)
        IN  /\ InvokeAccountAddress(donor_cast, o)
            /\ UNCHANGED sent
            /\ invoked' = Issued("get_account_address",
                                  <<"wallet", "address", donor_cast>>)
            /\ IF ~Truthy(donor_address)
               THEN Upd(Return("false"))
               ELSE Upd(Goto("get_balance") @@
                        [ok |-> {"get_account_address"},
                         mem |-> [mem EXCEPT !.donor_address = donor_address.text]])

\* Mutant: the swap test's outcome is the scenario's.
AfterSwapTestStrict(success) == success

\* What scenario 2 returns once test_token_swap has returned success.
AfterSwapTest(success) == "true"

\* test_token_swap returns b to scenario 2, which then returns
SwapDone(b) ==
    [pc |-> "done", swap_result |-> b, scenario_result |-> AfterSwapTest(b)]

\* scenario 2: the donor's token balance and the swap amount
GetBalance ==
    /\ pc = "get_balance"
    /\ \E o \in Outcomes(BalanceOutputs) :
        LET token_balance == GetBalanceResult(o)
        IN  /\ Call("get_balance", donor_cast,
                    BalanceCommand("<campaign_token_address>", "<donor_address>"),
                    o, token_balance)
            /\ IF token_balance.kind = "raise"
               THEN Upd(Except(token_balance.exc))
               ELSE IF token_balance.val > 0 /\ token_balance.val \div 10 > 0
               THEN Upd(Goto("get_pair") @@
                        [mem |-> [mem EXCEPT
                            !.token_balance = token_balance.val,
                            !.swap_amount = token_balance.val \div 10]])
               ELSE Upd(Return("true") @@
                        [mem |-> [mem EXCEPT !.token_balance = token_balance.val]])

(***************************************************************************)
(* UniswapV2Helper                                                         *)
(***************************************************************************)
ROUTER_ADDRESS == "0xeE567Fe1712Faf6149d80dA1E6934E354124CfE3"
FACTORY_ADDRESS == "0xF62c03E08ada871A0bEb309762E260a7a6a880E6"

\* Mutant: the helper is bound to the creator's executor.
uniswap_cast_creator == creator_cast

\* The executor the helper is bound to.
uniswap_cast == donor_cast

ZeroAddress == <<"0", "x">> \o [i \in 1..40 |-> "0"]

PairOutputs ==
    {<<>>, ZeroAddress, <<"0", "x", "a">>, <<"0", "x">> \o Addr40}

ReservesOutputs ==
    {<<>>,
     Tuple(<< <<"a">> >>),
     Tuple(<< <<"g">>, <<"1">>, <<"1">> >>),
     Tuple(<< <<"0">>, <<"a">>, <<"1">> >>),
     Tuple(<< <<"a">>, <<"0">>, <<"1">> >>),
     Tuple(<< <<"a">>, <<" ", "1", "0">>, <<" ", "1">> >>),
     Tuple(<< <<"1", "0", "0">>, <<" ", "a">>, <<" ", "1">> >>),
     Tuple(<< <<"1">>, <<" ", "-", "a">>, <<" ", "1">> >>)}

Token0Outputs ==
    {<<>>, <<"0", "x">> \o Zfill(<<"A">>, 40), <<"0", "x">> \o Addr40}

\* str.lower()
Lower(c) == IF c = "A" THEN "a" ELSE c

LowerText(t) == [i \in 1..Len(t) |-> Lower(t[i])]

PairCommand(token_a, token_b) ==
    <<"call", FACTORY_ADDRESS, "getPair(address,address)(address)", token_a, token_b>>

PairResult(o) ==
    LET result == RunCastResult(o)
    IN  IF Truthy(result) /\ result.text # ZeroAddress
        THEN Text(<<"0", "x">> \o Zfill(SubSeq(result.text, 3, Len(result.text)), 40))
        ELSE None

\* get_pair_address on its own, for every text the factory read can print
ExecGetPairAddress ==
    /\ op = "none"
    /\ \E o \in AllOutcomes \cup Outcomes(PairOutputs) :
        Invoke("get_pair_address", uniswap_cast, PairCommand("0xA", "0xB"), o,
               PairResult(o))
    /\ UNCHANGED <<scenVars, mainVars>>

\* get_reserves: None, or the first two fields read in base 16
ReservesResult(o) ==
    LET result == RunCastResult(o)
    IN  IF ~Truthy(result) THEN None
        ELSE LET parts == Split(StripSet(result.text, {"(", ")"}))
             IN  IF Len(parts) >= 2
                 THEN IF IntValid(parts[1], 16) /\ IntValid(parts[2], 16)
                      THEN [kind |-> "pair",
                            reserve0 |-> IntValue(parts[1], 16),
                            reserve1 |-> IntValue(parts[2], 16)]
                      ELSE None
                 ELSE None

\* Python integers have no width.  A natural number of any size is the
\* sequence of its decimal digits, least significant first, zero being <<>>.
RECURSIVE Digits(_)
Digits(n) == IF n = 0 THEN <<>> ELSE <<n % 10>> \o Digits(n \div 10)

RestOf(a) == IF a = <<>> THEN <<>> ELSE Tail(a)

LowOf(a) == IF a = <<>> THEN 0 ELSE Head(a)

\* a without zeros at its high end
RECURSIVE Normal(_)
Normal(a) ==
    IF a # <<>> /\ a[Len(a)] = 0 THEN Normal(SubSeq(a, 1, Len(a) - 1)) ELSE a

RECURSIVE BigAddCarry(_, _, _)
BigAddCarry(a, b, carry) ==
    IF a = <<>> /\ b = <<>> THEN Digits(carry)
    ELSE LET t == LowOf(a) + LowOf(b) + carry
         IN  <<t % 10>> \o BigAddCarry(RestOf(a), RestOf(b), t \div 10)

\* a + b
BigAdd(a, b) == BigAddCarry(a, b, 0)

\* a * k + carry, for a digit k
RECURSIVE BigMulDigit(_, _, _)
BigMulDigit(a, k, carry) ==
    IF a = <<>> THEN Digits(carry)
    ELSE LET t == Head(a) * k + carry
         IN  <<t % 10>> \o BigMulDigit(Tail(a), k, t \div 10)

\* a * b
RECURSIVE BigMul(_, _)
BigMul(a, b) ==
    IF b = <<>> THEN <<>>
    ELSE Normal(BigAdd(BigMulDigit(a, Head(b), 0), <<0>> \o BigMul(a, Tail(b))))

\* a < b, for normal a and b
RECURSIVE BigLess(_, _)
BigLess(a, b) ==
    IF Len(a) # Len(b) THEN Len(a) < Len(b)
    ELSE IF a = <<>> THEN FALSE
    ELSE IF a[Len(a)] # b[Len(b)] THEN a[Len(a)] < b[Len(b)]
    ELSE BigLess(Normal(SubSeq(a, 1, Len(a) - 1)), Normal(SubSeq(b, 1, Len(b) - 1)))

\* a - b - borrow, for a >= b
RECURSIVE BigSubBorrow(_, _, _)
BigSubBorrow(a, b, borrow) ==
    IF a = <<>> THEN <<>>
    ELSE LET t == Head(a) - LowOf(b) - borrow
         IN  IF t < 0
             THEN <<t + 10>> \o BigSubBorrow(Tail(a), RestOf(b), 1)
             ELSE <<t>> \o BigSubBorrow(Tail(a), RestOf(b), 0)

BigSub(a, b) == Normal(BigSubBorrow(a, b, 0))

\* How often d goes into r, for r < 10 * d.
QuotientDigit(r, d) ==
    CHOOSE k \in 0..9 :
        /\ ~BigLess(r, Normal(BigMulDigit(d, k, 0)))
        /\ BigLess(r, Normal(BigMulDigit(d, k + 1, 0)))

\* Long division of the digits n[1..i] (n[i] the highest) by d, from the
\* remainder r and the quotient q of the digits above them.
RECURSIVE DivideFrom(_, _, _, _, _)
DivideFrom(n, i, d, r, q) ==
    IF i = 0 THEN q
    ELSE LET r1 == Normal(<<n[i]>> \o r)
             k == QuotientDigit(r1, d)
         IN  DivideFrom(n, i - 1, d, BigSub(r1, Normal(BigMulDigit(d, k, 0))),
                        q * 10 + k)

\* n // d, for d > 0
BigFloorDiv(n, d) == DivideFrom(n, Len(n), d, <<>>, 0)

\* An int of either sign: whether it is negative, and its magnitude.
Abs(n) == IF n < 0 THEN -n ELSE n

Big(n) == [neg |-> n < 0, mag |-> Digits(Abs(n))]

\* a * b
SignedMul(a, b) ==
    LET m == BigMul(a.mag, b.mag)
    IN  [neg |-> m # <<>> /\ a.neg # b.neg, mag |-> m]

\* a + b
SignedAdd(a, b) ==
    IF a.neg = b.neg THEN [neg |-> a.neg, mag |-> BigAdd(a.mag, b.mag)]
    ELSE IF BigLess(a.mag, b.mag)
         THEN [neg |-> b.neg, mag |-> BigSub(b.mag, a.mag)]
         ELSE LET m == BigSub(a.mag, b.mag)
              IN  [neg |-> m # <<>> /\ a.neg, mag |-> m]

\* n // d for d # 0: the quotient rounded towards minus infinity
SignedFloorDiv(n, d) ==
    IF n.neg = d.neg
    THEN BigFloorDiv(n.mag, d.mag)
    ELSE -BigFloorDiv(BigSub(BigAdd(n.mag, d.mag), Digits(1)), d.mag)

\* Mutant: the fee is left out of the amount.
GetAmountOutNoFee(amount_in, reserve_in, reserve_out) ==
    IF reserve_in = 0 \/ reserve_out = 0 THEN 0
    ELSE LET amount_in_with_fee == BigMul(Digits(amount_in), Digits(1000))
             numerator == BigMul(amount_in_with_fee, Digits(reserve_out))
             denominator ==
                 BigAdd(BigMul(Digits(reserve_in), Digits(1000)), amount_in_with_fee)
         IN  IF denominator # <<>> THEN BigFloorDiv(numerator, denominator) ELSE 0

\* Mutant: the fee is missing from the denominator.
GetAmountOutFeeOnce(amount_in, reserve_in, reserve_out) ==
    IF reserve_in = 0 \/ reserve_out = 0 THEN 0
    ELSE LET amount_in_with_fee == BigMul(Digits(amount_in), Digits(997))
             numerator == BigMul(amount_in_with_fee, Digits(reserve_out))
             denominator ==
                 BigAdd(BigMul(Digits(reserve_in), Digits(1000)),
                        BigMul(Digits(amount_in), Digits(1000)))
         IN  IF denominator # <<>> THEN BigFloorDiv(numerator, denominator) ELSE 0

\* Mutant: the quotient is rounded up.
GetAmountOutRoundsUp(amount_in, reserve_in, reserve_out) ==
    IF reserve_in = 0 \/ reserve_out = 0 THEN 0
    ELSE LET amount_in_with_fee == BigMul(Digits(amount_in), Digits(997))
             numerator == BigMul(amount_in_with_fee, Digits(reserve_out))
             denominator ==
                 BigAdd(BigMul(Digits(reserve_in), Digits(1000)), amount_in_with_fee)
         IN  IF denominator # <<>>
             THEN BigFloorDiv(BigSub(BigAdd(numerator, denominator), Digits(1)),
                              denominator)
             ELSE 0

\* get_amount_out: the quote is 0 when a reserve is 0 or the denominator is
\* not positive, and the floor of the quotient otherwise
GetAmountOut(amount_in, reserve_in, reserve_out) ==
    IF reserve_in = 0 \/ reserve_out = 0 THEN 0
    ELSE LET amount_in_with_fee == SignedMul(Big(amount_in), Big(997))
             numerator == SignedMul(amount_in_with_fee, Big(reserve_out))
             denominator ==
                 SignedAdd(SignedMul(Big(reserve_in), Big(1000)), amount_in_with_fee)
         IN  IF denominator.mag # <<>> /\ ~denominator.neg
             THEN SignedFloorDiv(numerator, denominator)
             ELSE 0

\* The amounts get_amount_out is applied to: the small ones, a larger one,
\* and the amounts of the documented example.
MaxAmount == 5

Amounts == 0..MaxAmount \cup {1000}

ExampleAmounts == <<1000000, 100000000, 200000000>>

AmountInputs ==
    {<<a, i, o>> : a \in Amounts, i \in Amounts, o \in Amounts} \cup {ExampleAmounts}

\* get_amount_out applied to every input within the bounds
ExecGetAmountOut ==
    /\ op = "none"
    /\ \E in \in AmountInputs :
        /\ op' = "get_amount_out"
        /\ mem' = [mem EXCEPT !.swap_amount = in[1], !.reserve0 = in[2],
                              !.reserve1 = in[3]]
        /\ ret' = IntRet(GetAmountOut(in[1], in[2], in[3]))
    /\ UNCHANGED <<key, command, full_command, outcome, log, scenario, pc,
                   elapsed, iterations, slept, sent, invoked, steps_ok, state_seen,
                   wait_result, swap_result, scenario_result, raised, mainVars>>

NextExec ==
    \/ ExecRunCastCommand
    \/ ExecGetBalance
    \/ ExecApproveToken
    \/ ExecGetCampaignDetails
    \/ ExecGetCampaignAddress
    \/ ExecGetAccountAddress
    \/ ExecGetCampaignTokenAddress
    \/ ExecGetPairAddress
    \/ ExecGetAmountOut

SpecExec == InitExec /\ [][NextExec]_vars

\* int(expected_usdc_out * 0.95): the product rounded towards zero
MinOut(expected_usdc_out) ==
    IF expected_usdc_out < 0
    THEN -((Abs(expected_usdc_out) * 95) \div 100)
    ELSE (expected_usdc_out * 95) \div 100

\* test_token_swap: the pair lookup
GetPairAddress ==
    /\ pc = "get_pair"
    /\ \E o \in Outcomes(PairOutputs) :
        LET pair_address == PairResult(o)
        IN  /\ Call("get_pair_address", uniswap_cast,
                    PairCommand("<campaign_token_address>", Usdc), o, pair_address)
            /\ IF ~Truthy(pair_address)
               THEN Upd(SwapDone("false"))
               ELSE Upd(Goto("get_reserves") @@
                        [mem |-> [mem EXCEPT !.pair_address = pair_address.text]])

\* Mutant: the pair counts as empty only when both reserves are 0.
NoLiquidityBoth(reserve0, reserve1) == reserve0 = 0 /\ reserve1 = 0

\* "Pair has no liquidity"
NoLiquidity(reserve0, reserve1) == reserve0 = 0 \/ reserve1 = 0

\* test_token_swap: the reserves read and the liquidity test
GetReserves ==
    /\ pc = "get_reserves"
    /\ \E o \in Outcomes(ReservesOutputs) :
        LET reserves == ReservesResult(o)
        IN  /\ Call("get_reserves", uniswap_cast,
                    <<"call", "<pair_address>", "getReserves()(uint112,uint112,uint32)">>,
                    o, reserves)
            /\ IF reserves = None
               THEN Upd(SwapDone("false"))
               ELSE IF NoLiquidity(reserves.reserve0, reserves.reserve1)
               THEN Upd(SwapDone("false"))
               ELSE Upd(Goto("token0") @@
                        [mem |-> [mem EXCEPT !.reserve0 = reserves.reserve0,
                                             !.reserve1 = reserves.reserve1]])

\* test_token_swap: which reserve is the campaign token's, and the quote
Token0 ==
    /\ pc = "token0"
    /\ \E o \in Outcomes(Token0Outputs) :
        LET token0_result == RunCastResult(o)
        IN  /\ Call("run_cast_command", uniswap_cast,
                    <<"call", "<pair_address>", "token0()(address)">>, o,
                    token0_result)
            /\ IF ~Truthy(token0_result)
               THEN Upd(SwapDone("false"))
               ELSE LET token0 == LowerText(token0_result.text)
                        is_token0_campaign_token ==
                            LowerText(mem.campaign_token_address) = token0
                        token_reserve == IF is_token0_campaign_token
                                         THEN mem.reserve0 ELSE mem.reserve1
                        usdc_reserve == IF is_token0_campaign_token
                                        THEN mem.reserve1 ELSE mem.reserve0
                        expected_usdc_out ==
                            GetAmountOut(mem.swap_amount, token_reserve, usdc_reserve)
                    IN  Upd(Goto("approve_router") @@
                            [mem |-> [mem EXCEPT
                                !.expected_usdc_out = expected_usdc_out,
                                !.min_usdc_out = MinOut(expected_usdc_out)]])

\* swap_tokens_for_usdc: the router approval
ApproveRouter ==
    /\ pc = "approve_router"
    /\ \E o \in Outcomes(TxOutputs) :
        LET approved == ApproveResult(o)
        IN  /\ Call("approve_token", uniswap_cast,
                    ApproveCommand("<campaign_token_address>", ROUTER_ADDRESS,
                                   "<token_amount>"), o, approved)
            /\ IF ~approved.val
               THEN Upd(SwapDone("false"))
               ELSE Upd(Goto("wallet_address"))

\* swap_tokens_for_usdc: the account address, through run_cast_command
WalletAddress ==
    /\ pc = "wallet_address"
    /\ \E o \in Outcomes(AccountOutputs) :
        LET account_result == RunCastResult(o)
        IN  /\ Call("run_cast_command", uniswap_cast,
                    <<"wallet", "address", uniswap_cast>>, o, account_result)
            /\ IF ~Truthy(account_result)
               THEN Upd(SwapDone("false"))
               ELSE Upd(Goto("swap"))

SwapCommand ==
    <<"send", ROUTER_ADDRESS,
      "swapExactTokensForTokens(uint256,uint256,address[],address,uint256)",
      "<token_amount>", "<min_usdc_out>", "[<campaign_token_address>,<usdc>]",
      "<account_address>", "<deadline>">>

\* Mutant: a failed swap is submitted again.
SwapOutcomeRetry(result) ==
    IF Truthy(result) THEN SwapDone("true") ELSE Goto("swap")

\* swap_tokens_for_usdc returns True for a non-empty result, else False.
SwapOutcome(result) ==
    IF Truthy(result) THEN SwapDone("true") ELSE SwapDone("false")

\* swap_tokens_for_usdc: the swap
Swap ==
    /\ pc = "swap"
    /\ \E o \in Outcomes(TxOutputs) :
        LET result == RunCastResult(o)
        IN  /\ Call("run_cast_command", uniswap_cast, SwapCommand, o, result)
            /\ Upd(SwapOutcome(result))

Next ==
    \/ Begin
    \/ CreateCampaign
    \/ CampaignCount
    \/ CampaignAddress
    \/ ApproveUsdc
    \/ Contribute
    \/ UpdateCampaignState
    \/ ReadCampaignState
    \/ ClaimTokens
    \/ WithdrawFunds
    \/ RefundContribution
    \/ CreateLiquidityPool
    \/ GetCampaignTokenAddress
    \/ GetAccountAddress
    \/ GetBalance
    \/ GetPairAddress
    \/ GetReserves
    \/ Token0
    \/ ApproveRouter
    \/ WalletAddress
    \/ Swap

Spec == Init /\ [][Next]_vars

(***************************************************************************)
(* SpecMain: the process entry point, for every environment.  main builds  *)
(* the suite and runs run_all_tests, whose only active scenario is 2.      *)
(***************************************************************************)
InitMain ==
    /\ ExecIdle
    /\ ScenarioIdle
    /\ env \in Environments
    /\ suite = Unbuilt
    /\ results = <<>>
    /\ exit_status = -1

\* main: SepoliaTestSuite(); a configuration error is caught and exits 1
Construct ==
    /\ pc = "start"
    /\ suite = Unbuilt
    /\ suite' = LoadConfig(env)
    /\ IF suite'.kind = "raise"
       THEN pc' = "exited" /\ exit_status' = 1
       ELSE pc' = "creator_account" /\ UNCHANGED exit_status
    /\ UNCHANGED <<execVars, scenario, mem, elapsed, iterations, slept, sent, invoked,
                   steps_ok, state_seen, wait_result, swap_result,
                   scenario_result, raised, env, results>>

\* run_all_tests: the creator's address, for the log
CreatorAccount ==
    /\ pc = "creator_account"
    /\ \E o \in Outcomes(AccountOutputs) : InvokeAccountAddress(creator_cast, o)
    /\ pc' = "donor_account"
    /\ UNCHANGED <<scenario, mem, elapsed, iterations, slept, sent, invoked, steps_ok,
                   state_seen, wait_result, swap_result, scenario_result,
                   raised, mainVars>>

\* run_all_tests: the donor's address, for the log; scenario 2 is entered
DonorAccount ==
    /\ pc = "donor_account"
    /\ \E o \in Outcomes(AccountOutputs) : InvokeAccountAddress(donor_cast, o)
    /\ scenario' = 2
    /\ pc' = "create_campaign"
    /\ UNCHANGED <<mem, elapsed, iterations, slept, sent, invoked, steps_ok, state_seen,
                   wait_result, swap_result, scenario_result, raised, mainVars>>

\* The result map of run_all_tests, in order.
Results(passed) ==
    << [scenario |-> "scenario_2_success_with_liquidity", passed |-> passed] >>

\* Mutant: main returns normally whatever the results are.
ExitStatusIgnoresResults(res) == 0

\* main: exit(1) if not all(results.values()), else a normal return
ExitStatus(res) ==
    IF ~(\A i \in 1..Len(res) : res[i].passed) THEN 1 ELSE 0

\* run_all_tests returns the result map and main ends the process.
Exit ==
    /\ pc = "done"
    /\ exit_status = -1
    /\ results' = Results(scenario_result = "true")
    /\ exit_status' = ExitStatus(results')
    /\ pc' = "exited"
    /\ UNCHANGED <<execVars, scenario, mem, elapsed, iterations, slept, sent, invoked,
                   steps_ok, state_seen, wait_result, swap_result,
                   scenario_result, raised, env, suite>>

NextMain ==
    \/ Construct
    \/ CreatorAccount
    \/ DonorAccount
    \/ CreateCampaign
    \/ CampaignCount
    \/ CampaignAddress
    \/ ApproveUsdc
    \/ Contribute
    \/ UpdateCampaignState
    \/ ReadCampaignState
    \/ CreateLiquidityPool
    \/ GetCampaignTokenAddress
    \/ ClaimTokens
    \/ GetAccountAddress
    \/ GetBalance
    \/ GetPairAddress
    \/ GetReserves
    \/ Token0
    \/ ApproveRouter
    \/ WalletAddress
    \/ Swap
    \/ Exit

SpecMain == InitMain /\ [][NextMain]_vars

(***************************************************************************)
(* Properties of the command executor, checked under SpecExec.             *)
(***************************************************************************)
\* The assembled command carries --private-key followed by the instance's key.
HasKeyFlag ==
    \E i \in 1..(Len(full_command) - 1) :
        full_command[i] = "--private-key" /\ full_command[i + 1] = key

Verb == IF command = <<>> THEN "" ELSE command[1]

\* C5 as stated: the key flag is attached if and only if the token "send" is
\* in the argument list, and a request whose verb is "call" never carries it,
\* whatever its other tokens are.
C5_KeyNeverOnCall ==
    op = "run_cast_command" =>
        /\ HasKeyFlag <=> "send" \in Range(command)
        /\ Verb = "call" => ~HasKeyFlag

\* C5 amended: the key flag is attached if and only if the token "send" is in
\* the argument list; a request whose verb is "call" carries it exactly when
\* one of its other tokens is literally "send", so never because a token only
\* contains "send" as a substring.
C5_KeyIffSendToken ==
    op = "run_cast_command" =>
        /\ HasKeyFlag <=> "send" \in Range(command)
        /\ Verb = "call" /\ "send" \notin Range(Tail(command)) => ~HasKeyFlag
        /\ ~HasKeyFlag => "--private-key" \notin Range(full_command)

C5_Witness ==
    /\ op = "run_cast_command"
    /\ Verb = "call"
    /\ "sendTokens()" \in Range(command)
    /\ "send" \notin Range(command)
    /\ ~HasKeyFlag

Blanks(n) == [i \in 1..n |-> " "]

\* t is s without its leading and trailing blanks.
IsTrimOf(t, s) ==
    /\ t = <<>> \/ (t[1] # " " /\ t[Len(t)] # " ")
    /\ \E i, j \in 0..Len(s) :
          i + Len(t) + j = Len(s) /\ s = Blanks(i) \o t \o Blanks(j)

\* C8: run_cast_command never raises; a timeout, a non-zero exit code and any
\* other error running the subprocess each give None, and a zero exit code
\* gives the whitespace-trimmed standard output.
C8_RunCastNeverRaises ==
    op = "run_cast_command" =>
        /\ ret.kind \in {"none", "text"}
        /\ outcome.kind \in {"timeout", "nonzero", "error"} => ret = None
        /\ outcome.kind = "exit0" =>
              ret.kind = "text" /\ IsTrimOf(ret.text, outcome.stdout)

C8_Witness ==
    /\ op = "run_cast_command"
    /\ outcome.kind = "exit0"
    /\ outcome.stdout = <<" ", "1", " ">>
    /\ ret = Text(<<"1">>)

\* C9 as stated: every executor operation degrades to an absent or zero
\* result and never propagates an exception, for every subprocess outcome and
\* every output text.
C9_NoOperationRaises ==
    op # "none" => ret.kind # "raise"

\* a text that int(text, 16) reads as zero
ZeroText(t) ==
    LET b == IF StartsWith0x(t) THEN SubSeq(t, 3, Len(t)) ELSE t
    IN  b # <<>> /\ \A i \in 1..Len(b) : b[i] = "0"

\* C10: get_balance returns 0 whenever the underlying read fails (absent
\* result), as well as when the read returns a zero balance.
C10_BalanceZeroOnFailure ==
    op = "get_balance" =>
        /\ outcome.kind # "exit0" => ret = IntRet(0)
        /\ outcome.kind = "exit0" /\ ZeroText(Strip(outcome.stdout)) =>
              ret = IntRet(0)

C10_Witness ==
    /\ op = "get_balance"
    /\ outcome.kind = "nonzero"
    /\ ret = IntRet(0)

(***************************************************************************)
(* Properties of the scenarios, checked under Spec.                        *)
(***************************************************************************)
\* The transaction contract.function has been submitted.
WasSent(contract, function) ==
    \E i \in 1..Len(sent) : sent[i].tx = <<contract, function>>

\* The last step read the campaign state and the text it got is the number n.
ReadYields(n) ==
    /\ command = StateCommand
    /\ outcome.kind = "exit0"
    /\ IntValid(outcome.stdout, 16)
    /\ IntValue(outcome.stdout, 16) = n

\* C1 as stated: in scenario 3, when the campaign is observed to end in state
\* Failed (2), the scenario goes on to send the donor's refund() transaction,
\* and returns true if that refund succeeds.
C1_RefundAfterFailed ==
    scenario = 3 /\ pc = "done" /\ state_seen = 2 =>
        /\ WasSent("<campaign_address>", "refund()")
        /\ "refund_contribution" \in steps_ok => scenario_result = "true"

\* C2: wait_for_campaign_end returns true as soon as a state read yields 1 and
\* false as soon as one yields 2, with no sleep between the read and the
\* return; after a read of 0 (and its sleep) it returns false exactly when the
\* elapsed time has reached max_wait, and polls again otherwise.
C2_PollReturns ==
    /\ ReadYields(1) =>
          wait_result = "true" /\ slept = 0 /\ pc = AfterWait(scenario)
    /\ ReadYields(2) =>
          wait_result = "false" /\ slept = 0 /\ pc = "done"
    /\ ReadYields(0) =>
          /\ slept = ActiveSleep
          /\ IF elapsed >= MaxWait
             THEN wait_result = "false" /\ pc = "done"
             ELSE wait_result = "pending" /\ pc = "update_state"

C2_Witness ==
    /\ ReadYields(0)
    /\ elapsed >= MaxWait
    /\ wait_result = "false"
    /\ scenario_result = "false"

CoreSteps ==
    {"create_campaign", "contribute_to_campaign", "wait_for_campaign_end",
     "create_liquidity_pool", "get_campaign_token_address", "claim_tokens"}

\* C3 as stated: in every run of scenario 2 where the steps through claim
\* tokens all succeed, the scenario returns true, whatever the outcome of the
\* later steps (donor address derivation, balance read, swap test).
C3_CoreStepsDecide ==
    scenario = 2 /\ pc = "done" /\ CoreSteps \subseteq steps_ok =>
        scenario_result = "true"

\* C4: in scenario 2, when every step through claim tokens succeeds and
\* test_token_swap returns false, the scenario still returns true.
C4_SwapFailureIgnored ==
    scenario = 2 /\ pc = "done" /\ CoreSteps \subseteq steps_ok
        /\ swap_result = "false" => scenario_result = "true"

C4_Witness ==
    /\ scenario = 2
    /\ pc = "done"
    /\ CoreSteps \subseteq steps_ok
    /\ swap_result = "false"
    /\ command = SwapCommand
    /\ scenario_result = "true"

CreatorTransactions ==
    {CreateCommand(1)[3], "updateCampaignState()", "withdrawFunds()",
     "createLiquidityPool()"}

DonorTransactions ==
    {"approve(address,uint256)", "contribute(uint256)", "claimTokens()",
     "refund()", SwapCommand[3]}

\* The assembled command is signed with k and holds no other key.
SignedOnlyWith(k) ==
    /\ \E i \in 1..(Len(full_command) - 1) :
          full_command[i] = "--private-key" /\ full_command[i + 1] = k
    /\ \A other \in Keys \ {k} : other \notin Range(full_command)

\* C6: every signed transaction carries the key of its designated actor:
\* createCampaign, updateCampaignState, withdrawFunds and createLiquidityPool
\* the creator key; approve, contribute, claimTokens, refund and the swap the
\* donor key.
C6_KeysNotCrossUsed ==
    "send" \in Range(command) =>
        /\ command[3] \in CreatorTransactions \cup DonorTransactions
        /\ command[3] \in CreatorTransactions => SignedOnlyWith(CreatorKey)
        /\ command[3] \in DonorTransactions => SignedOnlyWith(DonorKey)

C6_Witness ==
    /\ command = SwapCommand
    /\ SignedOnlyWith(DonorKey)
    /\ WasSent("<campaign_address>", "createLiquidityPool()")

\* C7: no log line of run_cast_command or get_account_address holds a private
\* key, for every command the suite issues and every subprocess outcome; of
\* the assembled command only its first three tokens are logged.
C7_NoKeyInLog ==
    \A i \in 1..Len(log) :
        /\ \A k \in Keys : k \notin Range(log[i])
        /\ \A j \in 4..Len(full_command) :
              full_command[j] \in Range(log[i]) =>
                  full_command[j] \in Range(SubSeq(full_command, 1, 3))

C7_Witness ==
    /\ op = "run_cast_command"
    /\ command = <<"wallet", "address", DonorKey>>
    /\ outcome.kind = "timeout"
    /\ Len(log) = 2

\* A transaction of test_token_swap has been submitted.
SwapTransactionSent ==
    \/ WasSent("<campaign_token_address>", "approve(address,uint256)")
    \/ WasSent(ROUTER_ADDRESS, SwapCommand[3])

\* C11: test_token_swap returns false and sends no transaction (neither the
\* router approval nor the swap) when the pair lookup returns no value, when
\* the reserves read returns no value, or when either reserve reads as 0.
C11_NoSwapWithoutLiquidity ==
    \/ op = "get_pair_address" /\ ret = None
    \/ op = "get_reserves" /\ ret = None
    \/ op = "get_reserves" /\ ret # None /\ (ret.reserve0 = 0 \/ ret.reserve1 = 0)
    => /\ swap_result = "false"
       /\ pc = "done"
       /\ ~SwapTransactionSent

C11_Witness ==
    /\ op = "get_reserves"
    /\ ret # None
    /\ ret.reserve0 # 0
    /\ ret.reserve1 = 0
    /\ swap_result = "false"
    /\ ~SwapTransactionSent

\* A return value the callers read as failure: None, False or an empty text.
Falsy(r) == r = None \/ r = BoolRet(FALSE) \/ r = Text(<<>>)

\* The building block called last has failed: its invocation came back with
\* no value.  (Inside the poll a failed invocation is not the poll's failure,
\* and inside test_token_swap it is the swap test's.)
BlockFailed ==
    /\ op # "none"
    /\ swap_result # "false"
    /\ command \notin {UpdateCommand, StateCommand}
    /\ Falsy(ret)

\* The building blocks a scenario calls on its way to returning True.
StepsCalled(s) ==
    CASE s = 1 -> {"create_campaign", "contribute_to_campaign",
                   "wait_for_campaign_end", "claim_tokens", "withdraw_funds"}
      [] s = 2 -> CoreSteps \cup {"get_account_address"}
      [] s = 3 -> {"create_campaign", "contribute_to_campaign",
                   "wait_for_campaign_end", "refund_contribution"}
      [] OTHER -> {}

\* C12 as stated: each scenario returns true only if every step it called
\* succeeded, and it stops at the first failing step: after a step returns
\* false or no value the scenario sends no further transaction and returns
\* false.
C12_EveryStepDecides ==
    /\ scenario_result = "true" =>
          /\ StepsCalled(scenario) \subseteq steps_ok
          /\ ~BlockFailed /\ wait_result = "true" /\ swap_result # "false"
    /\ BlockFailed \/ wait_result = "false" \/ swap_result = "false" =>
          pc = "done" /\ scenario_result = "false" /\ ~ENABLED Next

\* C12 amended: each scenario returns true only if every building block it
\* called succeeded, and it stops at the first failing step: after a step
\* returns false or no value the scenario sends no further transaction, and
\* it returns false, except that scenario 2 returns true when the failing
\* step is test_token_swap.
C12_BuildingBlocksDecide ==
    /\ scenario_result = "true" =>
          /\ StepsCalled(scenario) \subseteq steps_ok
          /\ ~BlockFailed /\ wait_result = "true" /\ raised = ""
    /\ BlockFailed \/ wait_result = "false" =>
          pc = "done" /\ scenario_result = "false" /\ ~ENABLED Next
    /\ swap_result = "false" =>
          pc = "done" /\ scenario = 2 /\ scenario_result = "true" /\ ~ENABLED Next

C12_Witness ==
    /\ scenario = 1
    /\ command = <<"send", "<campaign_address>", "claimTokens()">>
    /\ ret = None
    /\ pc = "done"
    /\ scenario_result = "false"
    /\ ~WasSent("<campaign_address>", "withdrawFunds()")

\* The invocations the poll loop of wait_for_campaign_end makes.
PollCommands ==
    {<<"run_cast_command", UpdateCommand>>, <<"run_cast_command", StateCommand>>}

\* C13: no operation is retried: within one scenario run each one-shot
\* transaction (createCampaign, stablecoin approve, contribute, claimTokens,
\* withdrawFunds, createLiquidityPool, refund, router approve, swap) is
\* submitted at most once, also when it fails; only the poll loop's
\* updateCampaignState transaction and getCampaignState read are repeated.
C13_NoRetry ==
    /\ \A c \in DOMAIN invoked : invoked[c] > 1 => c \in PollCommands
    /\ \A i \in 1..Len(sent) :
          sent[i].tx # <<UpdateCommand[2], UpdateCommand[3]>> =>
              /\ sent[i].n = 1
              /\ \A j \in 1..Len(sent) : sent[j].tx = sent[i].tx => j = i

C13_Witness ==
    /\ command = SwapCommand
    /\ ret = None
    /\ pc = "done"
    /\ invoked[<<"run_cast_command", SwapCommand>>] = 1
    /\ \A c \in PollCommands : invoked[c] = 2

(***************************************************************************)
(* Properties of the entry point and the configuration, under SpecMain.    *)
(***************************************************************************)
\* C14: the process exits with status 1 if any executed scenario's result is
\* false or if the construction of the suite raises, and with status 0
\* otherwise; a failing scenario never leads to exit status 0.
C14_ExitStatus ==
    /\ pc = "exited" =>
          /\ exit_status \in {0, 1}
          /\ exit_status = 1 <=>
                \/ suite.kind = "raise"
                \/ \E i \in 1..Len(results) : ~results[i].passed
          /\ suite.kind = "suite" =>
                Len(results) = 1 /\ results[1].passed = (scenario_result = "true")
    /\ pc # "exited" => exit_status = -1
    /\ scenario_result = "false" => exit_status # 0

C14_Witness ==
    /\ pc = "exited"
    /\ suite.kind = "suite"
    /\ scenario_result = "false"
    /\ raised = "ValueError"
    /\ exit_status = 1

\* The variables that are unset or set to the empty text.
AbsentOrEmpty == {var \in Range(EnvNames) : env[var] \in {None, Text(<<>>)}}

IsHexDigit(c) ==
    c \in {"0", "1", "2", "3", "4", "5", "6", "7", "8", "9",
           "a", "b", "c", "d", "e", "f", "A", "B", "C", "D", "E", "F"}

\* The text the last operation took for an address ("" if it took none).
AddressRead ==
    CASE op = "get_campaign_address" /\ outcome.kind = "exit0" ->
            Strip(outcome.stdout)
      [] op = "get_campaign_token_address" /\ outcome.kind = "exit0" ->
            LET parts == Split(StripSet(Strip(outcome.stdout), {"(", ")"}))
            IN  IF Len(parts) >= 9 THEN Strip(parts[9]) ELSE <<>>
      [] OTHER -> <<>>

\* The characters of the address read after its "0x".
AddressDigits == SubSeq(AddressRead, 3, Len(AddressRead))

\* r is "0x" and the 40-digit form of digits: the last 40 of more than 40,
\* zeros to the left of fewer.
IsNormalized(r, digits) ==
    /\ Len(r) = AddrDigits + 2
    /\ StartsWith0x(r)
    /\ \A i \in 1..AddrDigits :
          /\ IsHexDigit(r[2 + i])
          /\ r[2 + i] = IF Len(digits) - AddrDigits + i >= 1
                        THEN digits[Len(digits) - AddrDigits + i]
                        ELSE "0"

amount_in == mem.swap_amount

reserve_in == mem.reserve0

reserve_out == mem.reserve1

\* q = floor(n / d), for digit sequences n and d > 0
IsFloorOf(q, n, d) ==
    /\ ~BigLess(n, BigMul(d, Digits(q)))
    /\ BigLess(n, BigMul(d, Digits(q + 1)))

\* C17: for all amount_in >= 0 and reserves >= 0, get_amount_out returns 0
\* when either reserve is 0, and otherwise
\* floor(amount_in*997*reserve_out / (reserve_in*1000 + amount_in*997)).
C17_AmountOutFormula ==
    op = "get_amount_out" =>
        /\ ret.kind = "int" /\ ret.val >= 0
        /\ reserve_in = 0 \/ reserve_out = 0 => ret.val = 0
        /\ reserve_in # 0 /\ reserve_out # 0 =>
              LET with_fee == BigMul(Digits(amount_in), Digits(997))
              IN  IsFloorOf(ret.val,
                            BigMul(with_fee, Digits(reserve_out)),
                            BigAdd(BigMul(Digits(reserve_in), Digits(1000)), with_fee))
        \* the same in machine integers, where these do not overflow
        /\ {amount_in, reserve_in, reserve_out} \subseteq 1..1000 =>
              LET denominator == reserve_in * 1000 + amount_in * 997
              IN  /\ ret.val * denominator <= amount_in * 997 * reserve_out
                  /\ amount_in * 997 * reserve_out < (ret.val + 1) * denominator

C17_Witness ==
    /\ op = "get_amount_out"
    /\ amount_in = 1000
    /\ reserve_in = 1000
    /\ reserve_out = 1000
    /\ ret = IntRet(499)

\* The last call was get_amount_out(1_000_000, 100_000_000, 200_000_000).
ExampleCall ==
    op = "get_amount_out" /\ <<amount_in, reserve_in, reserve_out>> = ExampleAmounts

\* C18 as stated: get_amount_out(amount_in=1_000_000, reserve_in=100_000_000,
\* reserve_out=200_000_000) returns 1_982_713.
C18_ExampleAsStated == ExampleCall => ret = IntRet(1982713)

\* C18 amended: get_amount_out(amount_in=1_000_000, reserve_in=100_000_000,
\* reserve_out=200_000_000) returns 1_974_316.
C18_ExampleExact == ExampleCall => ret = IntRet(1974316)

C18_Witness == ExampleCall /\ ret.kind = "int" /\ ret.val > 0

(***************************************************************************)
(* Properties of create_campaign, checked under Spec.                      *)
(***************************************************************************)
\* create_campaign has returned None: the scenario has returned False, and
\* no (ID, address) pair was handed on.
CreateReturnedNone ==
    /\ pc = "done"
    /\ scenario_result = "false"
    /\ "create_campaign" \notin steps_ok
    /\ mem.campaign_address = <<>>

CreateCommands == {CreateCommand(s) : s \in 1..3}

\* C19: create_campaign computes the new campaign's ID as the campaign count
\* read after the creation transaction, minus 1 (a count read of 7 gives ID
\* 6), and returns no value if the creation transaction, the count read or
\* the address read fails; it never reads the count unless the creation
\* transaction succeeded.
C19_CampaignId ==
    /\ command = CountCommand /\ pc = "campaign_address" =>
          /\ IntValid(ret.text, 10)
          /\ mem.campaign_id + 1 = IntValue(ret.text, 10)
          /\ ret.text = <<"7">> => mem.campaign_id = 6
    /\ command \in CreateCommands \cup {CountCommand} /\ Falsy(ret) =>
          CreateReturnedNone
    /\ op = "get_campaign_address" /\ Falsy(ret) => CreateReturnedNone
    /\ pc = "campaign_count" => command \in CreateCommands /\ Truthy(ret)
    /\ <<"run_cast_command", CountCommand>> \in DOMAIN invoked =>
          /\ WasSent(Factory, CreateCommand(1)[3])
          /\ sent[1].n = 1

C19_Witness ==
    /\ command = CountCommand
    /\ ret = Text(<<"7">>)
    /\ mem.campaign_id = 6
    /\ pc = "campaign_address"

\* a is "0x" followed by exactly 40 hex digits.
IsAddress(a) ==
    /\ Len(a) = AddrDigits + 2
    /\ StartsWith0x(a)
    /\ \A i \in 3..Len(a) : IsHexDigit(a[i])

\* C20 as stated: every (ID, address) pair returned by create_campaign is a
\* campaign identity: the ID is a non-negative integer and the address is
\* "0x" followed by exactly 40 hex digits, for every count value and every
\* address text the reads can return.
C20_CampaignIdentity ==
    "create_campaign" \in steps_ok =>
        /\ mem.campaign_id >= 0
        /\ IsAddress(mem.campaign_address)

(***************************************************************************)
(* Properties of the order of the transactions, checked under Spec.        *)
(***************************************************************************)
\* A transaction that needs a succeeded campaign has been submitted.
SuccessTransactionSent ==
    \E f \in {"claimTokens()", "withdrawFunds()", "createLiquidityPool()"} :
        WasSent("<campaign_address>", f)

\* C21: in scenarios 1 and 2, claimTokens, withdrawFunds and
\* createLiquidityPool are sent only after the poll has observed state
\* Succeeded (1); in a run where the poll observed Failed or timed out none
\* of them is ever sent.  In scenario 2 the router approval and the swap are
\* sent only after createLiquidityPool and claimTokens have both succeeded.
C21_OnlyAfterSucceeded ==
    scenario \in {1, 2} =>
        /\ SuccessTransactionSent => state_seen = 1 /\ wait_result = "true"
        /\ wait_result = "false" \/ state_seen = 2 => ~SuccessTransactionSent
        /\ SwapTransactionSent =>
              /\ scenario = 2
              /\ {"create_liquidity_pool", "claim_tokens"} \subseteq steps_ok
              /\ WasSent("<campaign_address>", "createLiquidityPool()")
              /\ WasSent("<campaign_address>", "claimTokens()")

C21_Witness ==
    /\ scenario = 2
    /\ WasSent(ROUTER_ADDRESS, SwapCommand[3])
    /\ state_seen = 1
    /\ \E i \in 1..Len(sent) :
          sent[i].tx = <<"<campaign_address>", "updateCampaignState()">> /\ sent[i].n = 2

\* The position of the transaction contract.function among those submitted
\* (0 if it was not).
SentAt(contract, function) ==
    IF WasSent(contract, function)
    THEN CHOOSE i \in 1..Len(sent) : sent[i].tx = <<contract, function>>
    ELSE 0

\* The commands of the contribute transactions issued so far.
ContributeCommands ==
    {c[2] : c \in {i \in DOMAIN invoked : i[2][3] = "contribute(uint256)"}}

\* The stablecoin approvals issued so far, as commands of approve_token.
UsdcApprovals ==
    {c[2] : c \in {i \in DOMAIN invoked : i[1] = "approve_token" /\ i[2][2] = Usdc}}

\* C22: contribute_to_campaign sends the donor's stablecoin
\* approve(campaign address, amount) before the contribute(amount)
\* transaction, with the same amount in both; if the approval fails the
\* contribute transaction is never sent and the operation returns false.
C22_ApproveBeforeContribute ==
    /\ \A c \in ContributeCommands :
          /\ c = <<"send", "<campaign_address>", "contribute(uint256)",
                   AmountToken(ContributionAmount(scenario))>>
          /\ UsdcApprovals = {ApproveCommand(Usdc, c[2], c[4])}
          /\ 0 < SentAt(Usdc, "approve(address,uint256)")
          /\ SentAt(Usdc, "approve(address,uint256)") < SentAt(c[2], c[3])
    /\ op = "approve_token" /\ command[2] = Usdc /\ ret = BoolRet(FALSE) =>
          /\ ContributeCommands = {}
          /\ ~WasSent("<campaign_address>", "contribute(uint256)")
          /\ pc = "done" /\ scenario_result = "false"
          /\ "contribute_to_campaign" \notin steps_ok

C22_Witness ==
    /\ scenario = 3
    /\ command = ContributeCommand(FundingGoal \div 2)
    /\ key = DonorKey
    /\ UsdcApprovals = {ApproveCommand(Usdc, "<campaign_address>", "500000000")}
    /\ "contribute_to_campaign" \in steps_ok


(***************************************************************************)
(* wait_for_campaign_end with its iterations counted: a scenario up to the *)
(* return of the wait.                                                     *)
(***************************************************************************)
CountedIteration == BeginIteration([iterations |-> iterations + 1])

NextWait ==
    \/ Begin
    \/ CreateCampaign
    \/ CampaignCount
    \/ CampaignAddress
    \/ ApproveUsdc
    \/ Contribute
    \/ CountedIteration
    \/ ReadCampaignState

SpecWait == Init /\ [][NextWait]_vars

InWait == pc \in {"update_state", "read_state"}

\* The wait has returned False because the loop condition failed.
TimedOut ==
    wait_result = "false" /\ raised = "" /\ ~ReadYields(2)

\* C23: wait_for_campaign_end terminates for every sequence of outcomes of the
\* state-refresh transaction and of the state read: a wait in progress can
\* always take its next step, every iteration that does not return advances
\* the clock by at least 10 s, and so with max_wait = 150 at most 15
\* iterations are begun before the wait returns false.
C23_WaitTerminates ==
    /\ iterations <= 15
    /\ InWait => ENABLED (CountedIteration \/ ReadCampaignState)
    /\ pc = "update_state" => elapsed >= 10 * iterations /\ elapsed < MaxWait
    /\ pc = "read_state" => iterations >= 1 /\ elapsed >= 10 * (iterations - 1)
    /\ TimedOut => elapsed >= MaxWait /\ elapsed >= 10 * iterations

C23_Witness ==
    /\ TimedOut
    /\ iterations = 15
    /\ ReadYields(3)
    /\ scenario_result = "false"


\* The last step read text with command cmd and the text is no number in base.
Unparsable(cmd, base) ==
    /\ command = cmd
    /\ outcome.kind = "exit0"
    /\ Strip(outcome.stdout) # <<>>
    /\ ~IntValid(Strip(outcome.stdout), base)

\* The scenario has caught error e and returned False.
Caught(e) == pc = "done" /\ scenario_result = "false" /\ raised = e

\* C24: a scenario never raises: an error inside its body (a campaign count
\* that is no decimal number, a campaign state or a balance text that is not
\* hexadecimal) is caught at the scenario boundary and becomes a False return.
C24_NeverRaises ==
    /\ scenario_result \in {"pending", "true", "false"}
    /\ raised # "" => Caught(raised)
    /\ Unparsable(CountCommand, 10) => Caught("ValueError")
    /\ Unparsable(StateCommand, 16) => Caught("ValueError")
    /\ op = "get_balance" /\ Unparsable(command, 16) =>
          ret = Raise("ValueError") /\ Caught("ValueError")

C24_Witness ==
    /\ scenario = 2
    /\ op = "get_balance"
    /\ Unparsable(BalanceCommand("<campaign_token_address>", "<donor_address>"), 16)
    /\ Caught("ValueError")


\* The contract function of the transaction sent by the last step ("" if the
\* last step sent none).
TxFunction ==
    IF Len(command) >= 3 /\ command[1] = "send" THEN command[3] ELSE ""

\* The executor returned a result for the last step's subprocess.
NonAbsent == outcome.kind = "exit0"

\* The building block each wrapped transaction belongs to.
Wrappers ==
    {<<"contribute(uint256)", "contribute_to_campaign">>,
     <<"claimTokens()", "claim_tokens">>,
     <<"withdrawFunds()", "withdraw_funds">>,
     <<"createLiquidityPool()", "create_liquidity_pool">>,
     <<"refund()", "refund_contribution">>}

\* C25 as stated: all transaction wrappers read the executor's result alike:
\* contribute_to_campaign, claim_tokens, withdraw_funds, create_liquidity_pool,
\* refund_contribution and swap_tokens_for_usdc report success exactly when the
\* executor returned a non-absent result for their transaction, as
\* approve_token does; exit status 0 with empty output is a success in all.
C25_UniformSuccess ==
    /\ op = "approve_token" => (ret = BoolRet(TRUE) <=> NonAbsent)
    /\ \A w \in Wrappers :
          TxFunction = w[1] => (w[2] \in steps_ok <=> NonAbsent)
    /\ command = SwapCommand => (swap_result = "true" <=> NonAbsent)


\* C26 as stated: get_pair_address returns no value when the factory read
\* fails or returns the all-zero address; every value it does return is "0x"
\* followed by exactly 40 hex digits and is never an all-zero address.
C26_PairAddress ==
    op = "get_pair_address" =>
        /\ outcome.kind # "exit0" \/ Strip(outcome.stdout) = ZeroAddress =>
              ret = None
        /\ ret # None => IsAddress(ret.text) /\ ret.text # ZeroAddress


\* a and b are the same text once the case of their letters is set aside.
SameIgnoringCase(a, b) ==
    Len(a) = Len(b) /\ \A i \in 1..Len(a) : Lower(a[i]) = Lower(b[i])

\* The last step of test_token_swap read the pair's token0 and got a text.
Token0Read ==
    command = <<"call", "<pair_address>", "token0()(address)">> /\ Truthy(ret)

\* The expected output is the quote for the swap amount with the campaign
\* token's reserve as reserve_in and the stablecoin's as reserve_out.
QuoteFromTokenReserve ==
    Token0Read =>
        LET same == SameIgnoringCase(ret.text, mem.campaign_token_address)
            token_reserve == IF same THEN mem.reserve0 ELSE mem.reserve1
            usdc_reserve == IF same THEN mem.reserve1 ELSE mem.reserve0
        IN  mem.expected_usdc_out =
                GetAmountOut(mem.swap_amount, token_reserve, usdc_reserve)

\* C27 as stated: in test_token_swap the expected output is computed with the
\* campaign token's reserve as reserve_in and the stablecoin's reserve as
\* reserve_out, reserve0 being the campaign token's exactly when the pair's
\* token0 equals the campaign token address compared case-insensitively; and
\* the minimum output passed to the swap never exceeds that expected output.
C27_SwapQuote ==
    /\ QuoteFromTokenReserve
    /\ Token0Read => mem.min_usdc_out <= mem.expected_usdc_out


(***************************************************************************)
(* Properties of the swap quote, checked under SpecExec.                   *)
(***************************************************************************)
\* C28: for all amount_in >= 0 and reserves reserve_in > 0, reserve_out > 0,
\* get_amount_out returns a value that is >= 0 and strictly less than
\* reserve_out (a quote never drains the output reserve), and the result is
\* non-decreasing in amount_in.
C28_QuoteBounded ==
    op = "get_amount_out" /\ amount_in >= 0 /\ reserve_in > 0 /\ reserve_out > 0 =>
        /\ ret.kind = "int"
        /\ ret.val >= 0
        /\ ret.val < reserve_out
        /\ \A more \in Amounts \cup {amount_in + 1} :
              more >= amount_in =>
                  GetAmountOut(more, reserve_in, reserve_out) >= ret.val
        /\ \A less \in Amounts :
              less <= amount_in =>
                  GetAmountOut(less, reserve_in, reserve_out) <= ret.val

C28_Witness ==
    /\ op = "get_amount_out"
    /\ amount_in = 1000 /\ reserve_in = 1 /\ reserve_out = 5
    /\ ret = IntRet(4)
    /\ GetAmountOut(1, reserve_in, reserve_out) = 2

====
